---- MODULE Spec2Model ----
(***************************************************************************)
(* Inventory-BinIO: the fixed-record binary table engine (BinTable) of     *)
(* src/inventory_binio.py -- a 128-byte header, an open-addressing hash    *)
(* index of index_slots slots, and a record region with a free-list that   *)
(* is threaded through the reserved bytes of soft-deleted records.         *)
(*                                                                         *)
(* A BinTable is its in-memory header (self.h) and the file it owns        *)
(* (header, index, records).  A record of the file is [flag, data,         *)
(* next_free]: byte 0, the payload bytes 1..pad_off-1, and the signed      *)
(* 32-bit word at pad_off.  Position p is recs[p+1].  h and file are the   *)
(* categories table, on which the engine operations are exercised; items   *)
(* and moves are the other two tables of the App; codec is a record on its *)
(* way through pack and unpack, byte by byte; peer is a second BinTable    *)
(* instance opened on the categories file; crashes counts the calls that   *)
(* the process did not finish.  The movements loop of                      *)
(* src/seed_inventory_data.py is modelled next to App.add_movement.        *)
(***************************************************************************)
EXTENDS Integers, Sequences, FiniteSets, TLC

\* ------------------------------------------------------------------ bounds
\* index_slots given to the constructor (512 / 4096 / 8192 in the program)
Slots == 3
\* items and movements the App creates
MaxItems == 2
MaxMoves == 2
\* largest ordinary key a caller passes: one more than the index can hold
MaxKey == Slots + 1
\* number of distinct payloads a caller packs
MaxData == 2
\* records the record region may hold
MaxRecs == Slots
\* deletions counted in the header
MaxDel == 2
\* ids minted by direct calls of next_id
MaxId == 1
\* characters that follow the run of 'a' in a string given to pack
MaxTail == 2
\* times the process stops inside a call
MaxCrash == 1

\* ------------------------------------------------------- program constants
\* 0xFFFFFFFF.  TLC integers are 32-bit signed, so this one unsigned 32-bit
\* value is held as its two's-complement pattern; hash() below computes
\* its residue as the program does for 4294967295.
TOMBSTONE_KEY == 0 - 1
Magic == "CATE"
RSize == 128
ItemMagic == "ITEM"
ItemSize == 128
MoveMagic == "MOVE"
MoveSize == 64

\* keys 1..0xFFFFFFFE that the model passes, and the two reserved values
ValidKeys == 1 .. MaxKey
AllKeys == (0 .. MaxKey) \cup {TOMBSTONE_KEY}
Data == 1 .. MaxData
\* ids typed for items and movements, quantities typed for a new item and
\* amounts typed for a movement
ItemKeys == 1 .. MaxItems
MoveKeys == 1 .. MaxMoves

\* h, file: the categories table (App.cats), also the table on which the
\* engine is exercised alone; items, moves: App.items and App.moves, each
\* with its in-memory header and its file
\* codec: a record on its way through pack and unpack
\* peer: a second BinTable instance on the categories file, with the header
\* it cached when it opened the file
\* crashes: how many times the process has stopped inside a call
VARIABLES h, file, last, shadow, minted, items, moves, codec, peer, crashes

vars == <<h, file, last, shadow, minted, items, moves, codec, peer, crashes>>

\* ---------------------------------------------------------- header, slots
HeaderNew(magic, record_size, index_slots) ==
    [magic |-> magic, version |-> 1, endian |-> 0, record_size |-> record_size,
     next_id |-> 1, active_count |-> 0, deleted_count |-> 0,
     free_head |-> 0 - 1, index_slots |-> index_slots]

\* struct.pack(HEADER_FMT, ...) raises struct.error when a field is out of
\* the range of its format code (I: unsigned 32 bit, i: signed 32 bit)
\* (the upper limits 2^32-1 and 2^31-1 lie beyond every bound of the model)
HeaderPackable(hd) ==
    /\ hd.next_id >= 0
    /\ hd.active_count >= 0
    /\ hd.deleted_count >= 0
    /\ hd.index_slots >= 0

IndexSlot(key, rec_index) == [key |-> key, rec_index |-> rec_index]

\* Categories.pack(1, id, name, desc): flag byte, payload, zeroed reserved tail
Pack(flag, d) == [flag |-> flag, data |-> d, next_free |-> 0]

NotFound == [found |-> FALSE]
Found(raw) == [found |-> TRUE, raw |-> raw]

\* ------------------------------------------------------------ file access
write_header(hd, fl) ==
    IF HeaderPackable(hd)
    THEN [ok |-> TRUE, file |-> [fl EXCEPT !.hdr = hd]]
    ELSE [ok |-> FALSE, file |-> fl]

read_slot(fl, slot) == fl.index[slot]
write_slot(fl, slot, slotval) == [fl EXCEPT !.index[slot] = slotval]
\* 2^32 mod n, from 2^16 mod n
Pow32Mod(n) == ((65536 % n) * (65536 % n)) % n
\* key % index_slots, the key read as an unsigned 32-bit value
hash(hd, key) ==
    IF key >= 0 THEN key % hd.index_slots
    ELSE ((key % hd.index_slots) + Pow32Mod(hd.index_slots)) % hd.index_slots

records_count(fl) == Len(fl.recs)
read_raw(fl, rec_index) == fl.recs[rec_index + 1]
write_raw(fl, rec_index, data) ==
    IF rec_index < Len(fl.recs)
    THEN [fl EXCEPT !.recs[rec_index + 1] = data]
    ELSE [fl EXCEPT !.recs = Append(fl.recs, data)]
write_next_free(fl, rec_index, next_free) ==
    [fl EXCEPT !.recs[rec_index + 1].next_free = next_free]

\* ------------------------------------------------------------ index probes
\* a faulty insert probe: the first tombstone is taken at once, the rest of
\* the chain is not searched for the key
RECURSIVE find_slot_take_tomb_loop(_, _, _, _)
find_slot_take_tomb_loop(hd, fl, key, i) ==
    IF i = hd.index_slots
    THEN [ok |-> FALSE, err |-> "index full", slot |-> 0 - 1]
    ELSE LET j == (hash(hd, key) + i) % hd.index_slots
             sl == read_slot(fl, j)
         IN  IF sl.key = key
             THEN [ok |-> FALSE, err |-> "duplicate key", slot |-> 0 - 1]
             ELSE IF sl.key = 0 \/ sl.key = TOMBSTONE_KEY
                  THEN [ok |-> TRUE, err |-> "", slot |-> j]
                  ELSE find_slot_take_tomb_loop(hd, fl, key, i + 1)

find_slot_take_tomb(hd, fl, key) == find_slot_take_tomb_loop(hd, fl, key, 0)

\* a faulty insert probe: tombstones are passed over and never reused
RECURSIVE find_slot_no_reuse_loop(_, _, _, _)
find_slot_no_reuse_loop(hd, fl, key, i) ==
    IF i = hd.index_slots
    THEN [ok |-> FALSE, err |-> "index full", slot |-> 0 - 1]
    ELSE LET j == (hash(hd, key) + i) % hd.index_slots
             sl == read_slot(fl, j)
         IN  IF sl.key = key
             THEN [ok |-> FALSE, err |-> "duplicate key", slot |-> 0 - 1]
             ELSE IF sl.key = 0
                  THEN [ok |-> TRUE, err |-> "", slot |-> j]
                  ELSE find_slot_no_reuse_loop(hd, fl, key, i + 1)

find_slot_no_reuse(hd, fl, key) == find_slot_no_reuse_loop(hd, fl, key, 0)

\* the loop of _find_slot_for_insert from step i on, first_tomb as it stands
RECURSIVE find_slot_loop(_, _, _, _, _)
find_slot_loop(hd, fl, key, i, first_tomb) ==
    IF i = hd.index_slots
    THEN [ok |-> FALSE, err |-> "index full", slot |-> 0 - 1]
    ELSE LET j == (hash(hd, key) + i) % hd.index_slots
             sl == read_slot(fl, j)
             ft == IF sl.key = TOMBSTONE_KEY /\ first_tomb < 0 THEN j ELSE first_tomb
         IN  IF sl.key = key
             THEN [ok |-> FALSE, err |-> "duplicate key", slot |-> 0 - 1]
             ELSE IF sl.key = 0
                  THEN [ok |-> TRUE, err |-> "", slot |-> IF ft >= 0 THEN ft ELSE j]
                  ELSE find_slot_loop(hd, fl, key, i + 1, ft)

find_slot_for_insert(hd, fl, key) == find_slot_loop(hd, fl, key, 0, 0 - 1)

\* a faulty lookup: a tombstone ends the probe as an empty slot does
RECURSIVE lookup_stop_at_tomb_loop(_, _, _, _)
lookup_stop_at_tomb_loop(hd, fl, key, i) ==
    IF i = hd.index_slots
    THEN 0 - 1
    ELSE LET j == (hash(hd, key) + i) % hd.index_slots
             sl == read_slot(fl, j)
         IN  IF sl.key = 0 \/ sl.key = TOMBSTONE_KEY THEN 0 - 1
             ELSE IF sl.key = key THEN sl.rec_index
                  ELSE lookup_stop_at_tomb_loop(hd, fl, key, i + 1)

lookup_stop_at_tomb(hd, fl, key) == lookup_stop_at_tomb_loop(hd, fl, key, 0)

\* the loop of _lookup from step i on: the record position stored for key,
\* or -1 (None)
RECURSIVE lookup_loop(_, _, _, _)
lookup_loop(hd, fl, key, i) ==
    IF i = hd.index_slots
    THEN 0 - 1
    ELSE LET j == (hash(hd, key) + i) % hd.index_slots
             sl == read_slot(fl, j)
         IN  IF sl.key = 0 THEN 0 - 1
             ELSE IF sl.key = key THEN sl.rec_index
                  ELSE lookup_loop(hd, fl, key, i + 1)

lookup(hd, fl, key) == lookup_loop(hd, fl, key, 0)

\* the loop of _slot_of_key from step i on: the slot that holds key, or -1
RECURSIVE slot_of_key_loop(_, _, _, _)
slot_of_key_loop(hd, fl, key, i) ==
    IF i = hd.index_slots
    THEN 0 - 1
    ELSE LET j == (hash(hd, key) + i) % hd.index_slots
             sl == read_slot(fl, j)
         IN  IF sl.key = 0 THEN 0 - 1
             ELSE IF sl.key = key THEN j
                  ELSE slot_of_key_loop(hd, fl, key, i + 1)

slot_of_key(hd, fl, key) == slot_of_key_loop(hd, fl, key, 0)

\* ------------------------------------------------------------------- CRUD
\* a faulty next_id: the counter is written back without the increment
next_id_no_increment(hd, fl) ==
    LET w == write_header(hd, fl)
    IN  [h |-> hd, file |-> w.file, ok |-> w.ok, nid |-> hd.next_id]

next_id(hd, fl) ==
    LET h2 == [hd EXCEPT !.next_id = @ + 1]
        w == write_header(h2, fl)
    IN  [h |-> h2, file |-> w.file, ok |-> w.ok, nid |-> hd.next_id]

\* a faulty allocation: the free-list is ignored, the region always grows
alloc_rec_index_append(hd, fl) == [i |-> records_count(fl), h |-> hd]

alloc_rec_index(hd, fl) ==
    IF hd.free_head # 0 - 1
    THEN [i |-> hd.free_head,
          h |-> [hd EXCEPT !.free_head = read_raw(fl, hd.free_head).next_free]]
    ELSE [i |-> records_count(fl), h |-> hd]

\* add_record once _alloc_rec_index has returned a: position a.i, header a.h
add_record_at(a, fl, key, packed) ==
    LET f1 == write_raw(fl, a.i, packed)
        fs == find_slot_for_insert(a.h, f1, key)
    IN  IF ~fs.ok
        THEN [h |-> a.h, file |-> f1, res |-> fs.err, pos |-> a.i]
        ELSE LET f2 == write_slot(f1, fs.slot, IndexSlot(key, a.i))
                 h2 == [a.h EXCEPT !.active_count = @ + 1]
                 w == write_header(h2, f2)
             IN  [h |-> h2, file |-> w.file,
                  res |-> IF w.ok THEN "ok" ELSE "struct.error", pos |-> a.i]

add_record(hd, fl, key, packed) ==
    add_record_at(alloc_rec_index(hd, fl), fl, key, packed)

\* _alloc_rec_index of an instance whose file object still holds, in its read
\* buffer, the record region buf it read earlier: the next-free pointer comes
\* from the buffer when the position lies in it
alloc_rec_index_buffered(hd, fl, buf) ==
    IF hd.free_head # 0 - 1 /\ hd.free_head < Len(buf)
    THEN [i |-> hd.free_head,
          h |-> [hd EXCEPT !.free_head = buf[hd.free_head + 1].next_free]]
    ELSE alloc_rec_index(hd, fl)

read_record(hd, fl, key) ==
    LET ri == lookup(hd, fl, key)
    IN  IF ri < 0 THEN NotFound ELSE Found(read_raw(fl, ri))

update_record(hd, fl, key, packed) ==
    LET ri == lookup(hd, fl, key)
    IN  IF ri < 0
        THEN [h |-> hd, file |-> fl, res |-> "not found", pos |-> 0 - 1]
        ELSE LET f1 == write_raw(fl, ri, packed)
                 w == write_header(hd, f1)
             IN  [h |-> hd, file |-> w.file,
                  res |-> IF w.ok THEN "ok" ELSE "struct.error", pos |-> ri]

\* a faulty delete: active_count is left as it was
delete_record_keeps_active(hd, fl, key) ==
    LET ri == lookup(hd, fl, key)
    IN  IF ri < 0
        THEN [h |-> hd, file |-> fl, res |-> "not found", pos |-> 0 - 1]
        ELSE LET f1 == write_raw(fl, ri, [read_raw(fl, ri) EXCEPT !.flag = 0])
                 f2 == write_next_free(f1, ri, hd.free_head)
                 h1 == [hd EXCEPT !.free_head = ri]
                 sj == slot_of_key(h1, f2, key)
                 f3 == IF sj >= 0 THEN write_slot(f2, sj, IndexSlot(TOMBSTONE_KEY, 0))
                       ELSE f2
                 h2 == [h1 EXCEPT !.deleted_count = @ + 1]
                 w == write_header(h2, f3)
             IN  [h |-> h2, file |-> w.file,
                  res |-> IF w.ok THEN "ok" ELSE "struct.error", pos |-> ri]

\* a faulty delete: the slot of the key is made EMPTY, not a tombstone
delete_record_empties_slot(hd, fl, key) ==
    LET ri == lookup(hd, fl, key)
    IN  IF ri < 0
        THEN [h |-> hd, file |-> fl, res |-> "not found", pos |-> 0 - 1]
        ELSE LET f1 == write_raw(fl, ri, [read_raw(fl, ri) EXCEPT !.flag = 0])
                 f2 == write_next_free(f1, ri, hd.free_head)
                 h1 == [hd EXCEPT !.free_head = ri]
                 sj == slot_of_key(h1, f2, key)
                 f3 == IF sj >= 0 THEN write_slot(f2, sj, IndexSlot(0, 0))
                       ELSE f2
                 h2 == [h1 EXCEPT !.active_count = @ - 1, !.deleted_count = @ + 1]
                 w == write_header(h2, f3)
             IN  [h |-> h2, file |-> w.file,
                  res |-> IF w.ok THEN "ok" ELSE "struct.error", pos |-> ri]

delete_record(hd, fl, key) ==
    LET ri == lookup(hd, fl, key)
    IN  IF ri < 0
        THEN [h |-> hd, file |-> fl, res |-> "not found", pos |-> 0 - 1]
        ELSE LET f1 == write_raw(fl, ri, [read_raw(fl, ri) EXCEPT !.flag = 0])
                 f2 == write_next_free(f1, ri, hd.free_head)
                 h1 == [hd EXCEPT !.free_head = ri]
                 sj == slot_of_key(h1, f2, key)
                 f3 == IF sj >= 0 THEN write_slot(f2, sj, IndexSlot(TOMBSTONE_KEY, 0))
                       ELSE f2
                 h2 == [h1 EXCEPT !.active_count = @ - 1, !.deleted_count = @ + 1]
                 w == write_header(h2, f3)
             IN  [h |-> h2, file |-> w.file,
                  res |-> IF w.ok THEN "ok" ELSE "struct.error", pos |-> ri]

\* a faulty open: only the record size is compared
open_existing_size_only(magic, rsize, slots, fl) ==
    [h |-> fl.hdr, file |-> fl,
     res |-> IF fl.hdr.record_size # rsize THEN "bad file format" ELSE "ok"]

\* BinTable.open, by a table built with (magic, rsize, slots), of the
\* existing file fl: the header is read into self.h and then validated
\* an open that repairs: active_count is recounted from the index
open_existing_recount(magic, rsize, slots, fl) ==
    [h |-> [fl.hdr EXCEPT !.active_count =
               Cardinality({s \in 0 .. fl.hdr.index_slots - 1 :
                               fl.index[s].key # 0 /\ fl.index[s].key # TOMBSTONE_KEY})],
     file |-> fl,
     res |-> IF fl.hdr.magic # magic \/ fl.hdr.record_size # rsize
             THEN "bad file format" ELSE "ok"]

open_existing(magic, rsize, slots, fl) ==
    [h |-> fl.hdr, file |-> fl,
     res |-> IF fl.hdr.magic # magic \/ fl.hdr.record_size # rsize
             THEN "bad file format" ELSE "ok"]

\* the file left by add_record when the process stops before _write_header:
\* after _write_raw (stage "record") or after _write_slot (stage "slot");
\* reached is FALSE when the call raises before that point
crash_add(hd, fl, key, packed, stage) ==
    LET a == alloc_rec_index(hd, fl)
        f1 == write_raw(fl, a.i, packed)
        fs == find_slot_for_insert(a.h, f1, key)
    IN  IF stage = "record" THEN [reached |-> TRUE, file |-> f1]
        ELSE IF ~fs.ok THEN [reached |-> FALSE, file |-> f1]
        ELSE [reached |-> TRUE,
              file |-> write_slot(f1, fs.slot, IndexSlot(key, a.i))]

\* the file left by delete_record when the process stops before
\* _write_header: after the flag byte is cleared (stage "record"), after
\* _write_next_free (stage "next_free") or after _write_slot (stage "slot")
crash_delete(hd, fl, key, stage) ==
    LET ri == lookup(hd, fl, key)
    IN  IF ri < 0 THEN [reached |-> FALSE, file |-> fl]
        ELSE LET f1 == write_raw(fl, ri, [read_raw(fl, ri) EXCEPT !.flag = 0])
                 f2 == write_next_free(f1, ri, hd.free_head)
                 h1 == [hd EXCEPT !.free_head = ri]
                 sj == slot_of_key(h1, f2, key)
                 f3 == IF sj >= 0 THEN write_slot(f2, sj, IndexSlot(TOMBSTONE_KEY, 0))
                       ELSE f2
             IN  [reached |-> TRUE,
                  file |-> IF stage = "record" THEN f1
                           ELSE IF stage = "next_free" THEN f2 ELSE f3]

\* a table as first opened: Header.new written to a file with index_slots
\* empty slots and no record
NewTable(magic, record_size, index_slots) ==
    LET hd == HeaderNew(magic, record_size, index_slots)
    IN  [h |-> hd,
         file |-> [hdr |-> hd,
                   index |-> [s \in 0 .. index_slots - 1 |-> IndexSlot(0, 0)],
                   recs |-> <<>>]]

\* positions yielded by the two scans, in scan order
iter_all(fl) == [i \in 1 .. records_count(fl) |-> <<i - 1, read_raw(fl, i - 1)>>]
IsActive(e) == e[2].flag = 1
\* a scan that yields every position, whatever its flag byte
iter_active_no_filter(fl) == iter_all(fl)
iter_active(fl) == SelectSeq(iter_all(fl), IsActive)

\* ------------------------------------------------- numbers of the App
\* A non-negative Python int n is held as <<n \div 2^16, n % 2^16>>: item
\* quantities reach 4294967295 and, before they are packed, beyond it, which
\* is more than the checker's integers hold.
Half == 256 * 256
Small(n) == <<0, n>>
U32Max == <<Half - 1, Half - 1>>
\* struct 'I' accepts 0 .. 4294967295
FitsU32(a) == a[1] < Half
Leq(a, b) == a[1] < b[1] \/ (a[1] = b[1] /\ a[2] <= b[2])
Plus(a, b) == <<a[1] + b[1] + ((a[2] + b[2]) \div Half), (a[2] + b[2]) % Half>>
\* a - b for b <= a
Minus(a, b) ==
    IF a[2] >= b[2]
    THEN <<a[1] - b[1], a[2] - b[2]>>
    ELSE <<a[1] - b[1] - 1, a[2] + Half - b[2]>>

\* MOVE_TYPE
Issue == 0
Transfer == 1
Return == 2
Repair == 3

\* ------------------------------------------------------ Items, Movements
ItemsPack(flag, iid, cat_id, qty) ==
    [flag |-> flag,
     data |-> [item_id |-> iid, cat_id |-> cat_id, qty |-> qty],
     next_free |-> 0]
ItemsUnpack(raw) ==
    [flag |-> raw.flag, item_id |-> raw.data.item_id,
     cat_id |-> raw.data.cat_id, qty |-> raw.data.qty]
MovesPack(flag, mid, iid, qty, typ) ==
    [flag |-> flag,
     data |-> [move_id |-> mid, item_id |-> iid, qty |-> qty, type |-> typ],
     next_free |-> 0]

\* the outcome of an App handler on the items and movements tables
Outcome(it, mv, res) == [items |-> it, moves |-> mv, res |-> res]
Table(r) == [h |-> r.h, file |-> r.file]
\* the outcome of a handler that touches one table
Result(t, res) == [h |-> t.h, file |-> t.file, res |-> res]

\* App.add_movement with item id iid, amount qty and movement type typ
add_movement(it, mv, iid, qty, typ) ==
    IF qty = Small(0) THEN Outcome(it, mv, "qty must be > 0")
    ELSE
    LET rd == read_record(it.h, it.file, iid)
    IN  IF ~rd.found THEN Outcome(it, mv, "item not found")
        ELSE
        LET r == ItemsUnpack(rd.raw)
        IN  IF typ = Issue /\ ~Leq(qty, r.qty)
            THEN Outcome(it, mv, "insufficient stock")
            ELSE
            LET new_qty == IF typ = Issue THEN Minus(r.qty, qty)
                           ELSE IF typ = Return THEN Plus(r.qty, qty)
                           ELSE r.qty
                n == next_id(mv.h, mv.file)
                a == add_record(n.h, n.file, n.nid,
                                MovesPack(1, n.nid, iid, qty, typ))
                u == update_record(it.h, it.file, iid,
                                   ItemsPack(1, r.item_id, r.cat_id, new_qty))
            IN  IF ~n.ok \/ ~FitsU32(qty)
                THEN Outcome(it, Table(n), "struct.error")
                ELSE IF a.res # "ok" THEN Outcome(it, Table(a), a.res)
                ELSE IF new_qty = r.qty THEN Outcome(it, Table(a), "ok")
                ELSE IF ~FitsU32(new_qty)
                THEN Outcome(it, Table(a), "struct.error")
                ELSE Outcome(Table(u), Table(a), u.res)

\* App.delete_movement with the typed move_id
delete_movement(it, mv, mid) ==
    LET r == delete_record(mv.h, mv.file, mid)
    IN  Outcome(it, Table(r), r.res)

\* App.add_item with the typed cat_id and initial quantity; cat is the
\* categories table
add_item(cat, it, cat_id, qty) ==
    IF ~read_record(cat.h, cat.file, cat_id).found
    THEN Result(it, "category not found")
    ELSE
    LET n == next_id(it.h, it.file)
        a == add_record(n.h, n.file, n.nid, ItemsPack(1, n.nid, cat_id, qty))
    IN  IF ~n.ok \/ ~FitsU32(qty)
        THEN Result(n, "struct.error")
        ELSE Result(a, a.res)

\* App.update_item with the typed item id, cat_id and quantity
update_item(cat, it, iid, cat_id, qty) ==
    IF ~read_record(it.h, it.file, iid).found
    THEN Result(it, "item not found")
    ELSE IF ~read_record(cat.h, cat.file, cat_id).found
    THEN Result(it, "category not found")
    ELSE IF ~FitsU32(qty) THEN Result(it, "struct.error")
    ELSE
    LET u == update_record(it.h, it.file, iid, ItemsPack(1, iid, cat_id, qty))
    IN  Result(u, u.res)

\* the scan of App.delete_category: an active item still names cid
Referenced(it, cid) ==
    \E e \in {iter_active(it.file)[i] : i \in 1 .. Len(iter_active(it.file))} :
        ItemsUnpack(e[2]).cat_id = cid

\* App.delete_category with the typed id; the result holds the categories
\* table
delete_category(cat, it, cid) ==
    IF Referenced(it, cid)
    THEN Result(cat, "referenced")
    ELSE delete_record(cat.h, cat.file, cid)

\* ---------------------------------------------------------- record codecs
\* Here a record is the sequence of its bytes.  A str is a sequence of
\* characters and a character is the sequence of bytes of its UTF-8
\* encoding: 'a', NUL, a two-byte and a three-byte character.
ChA == <<97>>
ChNul == <<0>>
ChE == <<195, 169>>
ChK == <<224, 184, 129>>

\* field widths of CAT_FMT / ITEM_FMT / MOVE_FMT
NameWidth == 30
DescWidth == 80
CatTail == 13
ItemTail == 80
MoveTail == 13

\* s.encode('utf-8', 'ignore') of a str without lone surrogates
RECURSIVE encode(_)
encode(s) == IF s = <<>> THEN <<>> ELSE Head(s) \o encode(Tail(s))

Zeros(n) == [i \in 1 .. n |-> 0]

\* fit(s, n): the encoding cut to n bytes and padded with NUL to n bytes
fit(s, n) ==
    LET b == encode(s)
        c == IF Len(b) > n THEN SubSeq(b, 1, n) ELSE b
    IN  c \o Zeros(n - Len(c))

\* a faulty rstrip that strips nothing
rstrip_nothing(b) == b

\* b.rstrip(b'\x00')
RECURSIVE rstrip(_)
rstrip(b) ==
    IF b # <<>> /\ b[Len(b)] = 0 THEN rstrip(SubSeq(b, 1, Len(b) - 1)) ELSE b

\* length of the UTF-8 sequence that the lead byte x announces
SeqLen(x) == IF x < 128 THEN 1 ELSE IF x < 224 THEN 2 ELSE IF x < 240 THEN 3 ELSE 4

\* b.decode('utf-8', 'ignore') of well-formed sequences followed, possibly,
\* by one cut-off sequence, which is ignored
RECURSIVE decode(_)
decode(b) ==
    IF b = <<>> THEN <<>>
    ELSE IF Len(b) < SeqLen(b[1]) THEN <<>>
    ELSE <<SubSeq(b, 1, SeqLen(b[1]))>> \o decode(SubSeq(b, SeqLen(b[1]) + 1, Len(b)))

\* dec of the unpack methods
dec(b) == decode(rstrip(b))

\* struct 'I', little-endian, of a number held as <<high half, low half>>
PackI(v) == <<v[2] % 256, v[2] \div 256, v[1] % 256, v[1] \div 256>>
UnpackI(b) == <<b[3] + 256 * b[4], b[1] + 256 * b[2]>>

\* Categories.pack / unpack: 'B I 30s 80s 13x'
cat_pack(flag, cid, name, desc) ==
    <<flag>> \o PackI(cid) \o fit(name, NameWidth) \o fit(desc, DescWidth)
        \o Zeros(CatTail)
cat_unpack(raw) ==
    [flag |-> raw[1], cat_id |-> UnpackI(SubSeq(raw, 2, 5)),
     name |-> dec(SubSeq(raw, 6, 35)), desc |-> dec(SubSeq(raw, 36, 115))]

\* Items.pack / unpack: 'B I 30s I I I B 80x'
item_pack(flag, iid, name, cat_id, qty, price_cents, status) ==
    <<flag>> \o PackI(iid) \o fit(name, NameWidth) \o PackI(cat_id)
        \o PackI(qty) \o PackI(price_cents) \o <<status>> \o Zeros(ItemTail)
item_unpack(raw) ==
    [flag |-> raw[1], item_id |-> UnpackI(SubSeq(raw, 2, 5)),
     name |-> dec(SubSeq(raw, 6, 35)), cat_id |-> UnpackI(SubSeq(raw, 36, 39)),
     qty |-> UnpackI(SubSeq(raw, 40, 43)),
     price_cents |-> UnpackI(SubSeq(raw, 44, 47)), status |-> raw[48]]

\* Movements.pack / unpack: 'B I I I I I 30s 13x'
move_pack(flag, mid, item_id, ymd, qty, typ, operator) ==
    <<flag>> \o PackI(mid) \o PackI(item_id) \o PackI(ymd) \o PackI(qty)
        \o PackI(typ) \o fit(operator, NameWidth) \o Zeros(MoveTail)
move_unpack(raw) ==
    [flag |-> raw[1], move_id |-> UnpackI(SubSeq(raw, 2, 5)),
     item_id |-> UnpackI(SubSeq(raw, 6, 9)), ymd |-> UnpackI(SubSeq(raw, 10, 13)),
     qty |-> UnpackI(SubSeq(raw, 14, 17)), type |-> UnpackI(SubSeq(raw, 18, 21)),
     operator |-> dec(SubSeq(raw, 22, 51))]

\* pack of the table kind, every numeric field given v, every one-byte
\* field given flag and every string field given s
pack_kind(kind, flag, v, s) ==
    IF kind = Magic THEN cat_pack(flag, v, s, s)
    ELSE IF kind = ItemMagic THEN item_pack(flag, v, s, v, v, v, flag)
    ELSE move_pack(flag, v, v, v, v, v, s)
unpack_kind(kind, raw) ==
    IF kind = Magic THEN cat_unpack(raw)
    ELSE IF kind = ItemMagic THEN item_unpack(raw)
    ELSE move_unpack(raw)

\* ---------------------------------------------------------------- actions
PeerClosed == [open |-> FALSE]
\* what _alloc_rec_index can return to the second instance: the pointer is
\* read from the file, or from the read buffer that open() filled
PeerAllocsOn(fl) ==
    {alloc_rec_index(peer.h, fl)} \cup
        (IF peer.buffered
         THEN {alloc_rec_index_buffered(peer.h, fl, peer.buf)} ELSE {})
PeerAllocs == PeerAllocsOn(file)

Init ==
    /\ h = HeaderNew(Magic, RSize, Slots)
    /\ file = [hdr |-> HeaderNew(Magic, RSize, Slots),
               index |-> [s \in 0 .. Slots - 1 |-> IndexSlot(0, 0)],
               recs |-> << >>]
    /\ last = [op |-> "open", res |-> "ok"]
    /\ shadow = [k \in ValidKeys |-> NotFound]
    /\ minted = {}
    /\ items = NewTable(ItemMagic, ItemSize, Slots)
    /\ moves = NewTable(MoveMagic, MoveSize, Slots)
    /\ codec = [stage |-> "idle"]
    /\ peer = PeerClosed
    /\ crashes = 0

AddRecord(key, packed) ==
    /\ h.free_head # 0 - 1 \/ records_count(file) < MaxRecs
    /\ LET r == add_record(h, file, key, packed)
       IN  /\ h' = r.h
           /\ file' = r.file
           /\ last' = [op |-> "add_record", res |-> r.res]
           /\ shadow' = IF r.res = "ok" /\ key \in ValidKeys
                        THEN [shadow EXCEPT ![key] = Found(packed)]
                        ELSE shadow
    /\ UNCHANGED <<minted, items, moves, codec, peer, crashes>>

UpdateRecord(key, packed) ==
    /\ LET r == update_record(h, file, key, packed)
       IN  /\ h' = r.h
           /\ file' = r.file
           /\ last' = [op |-> "update_record", res |-> r.res]
           /\ shadow' = IF r.res = "ok" /\ key \in ValidKeys
                        THEN [shadow EXCEPT ![key] = Found(packed)]
                        ELSE shadow
    /\ UNCHANGED <<minted, items, moves, codec, peer, crashes>>

DeleteRecord(key) ==
    /\ delete_record(h, file, key).res = "not found" \/ h.deleted_count < MaxDel
    /\ LET r == delete_record(h, file, key)
       IN  /\ h' = r.h
           /\ file' = r.file
           /\ last' = [op |-> "delete_record", res |-> r.res]
           /\ shadow' = IF r.res = "ok" /\ key \in ValidKeys
                        THEN [shadow EXCEPT ![key] = NotFound]
                        ELSE shadow
    /\ UNCHANGED <<minted, items, moves, codec, peer, crashes>>

NextId ==
    /\ h.next_id <= MaxId
    /\ LET r == next_id(h, file)
       IN  /\ h' = r.h
           /\ file' = r.file
           /\ last' = [op |-> "next_id", res |-> IF r.ok THEN "ok" ELSE "struct.error"]
           /\ minted' = IF r.ok THEN minted \cup {r.nid} ELSE minted
    /\ UNCHANGED <<shadow, items, moves, codec, peer, crashes>>

\* close() and, in a later run of the program, open() on the existing file:
\* the buffered writes reach the file, the header is read back and validated
Reopen ==
    /\ h' = file.hdr
    /\ last' = IF file.hdr.magic # Magic \/ file.hdr.record_size # RSize
               THEN [op |-> "open", res |-> "bad file format"]
               ELSE last
    /\ items' = [items EXCEPT !.h = items.file.hdr]
    /\ moves' = [moves EXCEPT !.h = moves.file.hdr]
    /\ UNCHANGED <<file, shadow, minted, codec, peer, crashes>>

\* the program is started again with the categories file at the path of a
\* table built with (magic, rsize, slots): open() reads and validates it
OpenAs(magic, rsize, slots) ==
    /\ LET r == open_existing(magic, rsize, slots, file)
       IN  /\ h' = r.h
           /\ file' = r.file
           /\ last' = [op |-> "open", res |-> r.res]
    /\ UNCHANGED <<shadow, minted, items, moves, codec, peer, crashes>>

\* App.add_category: an id is minted and the record is stored under it
AddCategory(d) ==
    /\ h.next_id <= MaxKey
    /\ h.free_head # 0 - 1 \/ records_count(file) < MaxRecs
    /\ LET n == next_id(h, file)
           r == add_record(n.h, n.file, n.nid, Pack(1, d))
       IN  IF ~n.ok
           THEN /\ h' = n.h
                /\ file' = n.file
                /\ last' = [op |-> "add_category", res |-> "struct.error"]
                /\ UNCHANGED <<shadow, minted>>
           ELSE /\ h' = r.h
                /\ file' = r.file
                /\ last' = [op |-> "add_category", res |-> r.res]
                /\ shadow' = IF r.res = "ok"
                             THEN [shadow EXCEPT ![n.nid] = Found(Pack(1, d))]
                             ELSE shadow
                /\ minted' = minted \cup {n.nid}
    /\ UNCHANGED <<items, moves, codec, peer, crashes>>

\* the categories table as the App handlers see it
Cats == [h |-> h, file |-> file]

\* App.add_item
AddItem(cat_id, qty) ==
    /\ items.h.next_id <= MaxItems
    /\ LET r == add_item(Cats, items, cat_id, qty)
       IN  /\ items' = Table(r)
           /\ last' = [op |-> "add_item", res |-> r.res]
    /\ UNCHANGED <<h, file, shadow, minted, moves, codec, peer, crashes>>

\* App.update_item
UpdateItem(iid, cat_id, qty) ==
    /\ LET r == update_item(Cats, items, iid, cat_id, qty)
       IN  /\ items' = Table(r)
           /\ last' = [op |-> "update_item", res |-> r.res]
    /\ UNCHANGED <<h, file, shadow, minted, moves, codec, peer, crashes>>

\* App.delete_item
DeleteItem(iid) ==
    /\ LET r == delete_record(items.h, items.file, iid)
       IN  /\ r.res = "not found" \/ items.h.deleted_count < MaxDel
           /\ items' = Table(r)
           /\ last' = [op |-> "delete_item", res |-> r.res]
    /\ UNCHANGED <<h, file, shadow, minted, moves, codec, peer, crashes>>

\* App.delete_category
DeleteCategory(cid) ==
    /\ LET r == delete_category(Cats, items, cid)
       IN  /\ r.res \in {"not found", "referenced"} \/ h.deleted_count < MaxDel
           /\ h' = r.h
           /\ file' = r.file
           /\ last' = [op |-> "delete_category", res |-> r.res]
           /\ shadow' = IF r.res = "ok" /\ cid \in ValidKeys
                        THEN [shadow EXCEPT ![cid] = NotFound]
                        ELSE shadow
    /\ UNCHANGED <<minted, items, moves, codec, peer, crashes>>

\* App.add_movement
AddMovement(iid, qty, typ) ==
    /\ LET r == add_movement(items, moves, iid, qty, typ)
       IN  /\ items' = r.items
           /\ moves' = r.moves
           /\ last' = [op |-> "add_movement", res |-> r.res]
    /\ UNCHANGED <<h, file, shadow, minted, codec, peer, crashes>>

\* App.delete_movement
DeleteMovement(mid) ==
    /\ LET r == delete_movement(items, moves, mid)
       IN  /\ r.res = "not found" \/ moves.h.deleted_count < MaxDel
           /\ items' = r.items
           /\ moves' = r.moves
           /\ last' = [op |-> "delete_movement", res |-> r.res]
    /\ UNCHANGED <<h, file, shadow, minted, codec, peer, crashes>>

\* the first category of a data directory
AddFirstCategory ==
    /\ h.next_id = 1
    /\ AddCategory(1)

\* one session in which records are stored under ordinary keys while update
\* and delete are called with any id a user types (App.update_category,
\* App.delete_item), the reserved values 0 and 0xFFFFFFFF included
Next ==
    \/ \E k \in ValidKeys, d \in Data : AddRecord(k, Pack(1, d))
    \/ \E k \in AllKeys, d \in Data : UpdateRecord(k, Pack(1, d))
    \/ \E k \in AllKeys : DeleteRecord(k)

Spec == Init /\ [][Next]_vars

\* every call made with a key in 1..0xFFFFFFFE, across sessions
NextValid ==
    \/ \E k \in ValidKeys, d \in Data : AddRecord(k, Pack(1, d))
    \/ \E k \in ValidKeys, d \in Data : UpdateRecord(k, Pack(1, d))
    \/ \E k \in ValidKeys : DeleteRecord(k)
    \/ Reopen

SpecValid == Init /\ [][NextValid]_vars

\* every call made with a key in 1..0xFFFFFFFE, within the session that
\* created the file
NextSession ==
    \/ \E k \in ValidKeys, d \in Data : AddRecord(k, Pack(1, d))
    \/ \E k \in ValidKeys, d \in Data : UpdateRecord(k, Pack(1, d))
    \/ \E k \in ValidKeys : DeleteRecord(k)
    \/ NextId

SpecSession == Init /\ [][NextSession]_vars

\* the categories table as App drives it: every key stored is a minted id,
\* the ids typed for update and delete are arbitrary
NextApp ==
    \/ \E d \in Data : AddCategory(d)
    \/ \E k \in AllKeys, d \in Data : UpdateRecord(k, Pack(1, d))
    \/ \E k \in AllKeys : DeleteRecord(k)
    \/ Reopen

SpecApp == Init /\ [][NextApp]_vars

\* stock keeping: items of one category and the movements recorded on them
Quantities == {Small(0), Small(2), U32Max}
Amounts == {Small(0), Small(1), Small(2)}
MoveTypes == {Issue, Transfer, Return, Repair}
NextStock ==
    \/ AddFirstCategory
    \/ \E q \in Quantities : AddItem(1, q)
    \/ \E i \in ItemKeys, n \in Amounts, t \in MoveTypes :
          moves.h.next_id <= MaxMoves /\ AddMovement(i, n, t)
    \/ \E m \in MoveKeys : DeleteMovement(m)
    \/ Reopen

SpecStock == Init /\ [][NextStock]_vars

\* movements of one unit on the first item, as many as the movements index
\* has slots, and deletes by typed move_id, reserved values included
AllMoveIds == (0 .. Slots) \cup {TOMBSTONE_KEY}
NextMoves ==
    \/ AddFirstCategory
    \/ AddItem(1, Small(2))
    \/ \E t \in {Issue, Return} :
          moves.h.next_id <= Slots /\ AddMovement(1, Small(1), t)
    \/ \E m \in AllMoveIds : DeleteMovement(m)

SpecMoves == Init /\ [][NextMoves]_vars

\* categories and the items that name them, with any id a user types
NextRef ==
    \/ AddCategory(1)
    \/ \E c \in AllKeys : AddItem(c, Small(1))
    \/ \E i \in ItemKeys, c \in AllKeys : UpdateItem(i, c, Small(1))
    \/ \E c \in AllKeys : DeleteCategory(c)
    \/ \E i \in ItemKeys : DeleteItem(i)
    \/ Reopen

SpecRef == Init /\ [][NextRef]_vars

\* the three table kinds: magic, record size, index_slots of the constructor
Schemas == {<<Magic, RSize, Slots>>, <<ItemMagic, ItemSize, Slots + 1>>,
            <<MoveMagic, MoveSize, Slots + 2>>}

\* the categories file is written by the App and opened again by a table of
\* any kind
NextOpen ==
    \/ \E d \in Data : AddCategory(d)
    \/ \E k \in AllKeys, d \in Data : UpdateRecord(k, Pack(1, d))
    \/ \E k \in AllKeys : DeleteRecord(k)
    \/ \E sc \in Schemas : OpenAs(sc[1], sc[2], sc[3])

SpecOpen == Init /\ [][NextOpen]_vars

AddStages == {"record", "slot"}
DeleteStages == {"record", "next_free", "slot"}

\* the process stops inside add_record before the header write; the program
\* is started again and open() reads the header the file has
CrashInAdd(key, packed, stage) ==
    /\ crashes < MaxCrash
    /\ h.free_head # 0 - 1 \/ records_count(file) < MaxRecs
    /\ LET c == crash_add(h, file, key, packed, stage)
       IN  /\ c.reached
           /\ file' = c.file
           /\ h' = open_existing(Magic, RSize, Slots, c.file).h
    /\ last' = [op |-> "crash in add_record", res |-> stage]
    /\ crashes' = crashes + 1
    /\ UNCHANGED <<shadow, minted, items, moves, codec, peer>>

\* the process stops inside delete_record before the header write, and the
\* program is started again
CrashInDelete(key, stage) ==
    /\ crashes < MaxCrash
    /\ LET c == crash_delete(h, file, key, stage)
       IN  /\ c.reached
           /\ file' = c.file
           /\ h' = open_existing(Magic, RSize, Slots, c.file).h
    /\ last' = [op |-> "crash in delete_record", res |-> stage]
    /\ crashes' = crashes + 1
    /\ UNCHANGED <<shadow, minted, items, moves, codec, peer>>

\* one process at a time, each of which may stop inside a call
NextCrash ==
    \/ \E k \in ValidKeys : AddRecord(k, Pack(1, 1))
    \/ \E k \in ValidKeys : DeleteRecord(k)
    \/ \E k \in ValidKeys, st \in AddStages : CrashInAdd(k, Pack(1, 1), st)
    \/ \E k \in ValidKeys, st \in DeleteStages : CrashInDelete(k, st)

SpecCrash == Init /\ [][NextCrash]_vars

\* a second instance opens the categories file and caches its header; the
\* read of the header leaves the start of the file in its read buffer
PeerOpen ==
    /\ ~peer.open
    /\ LET r == open_existing(Magic, RSize, Slots, file)
       IN  /\ r.res = "ok"
           /\ peer' = [open |-> TRUE, h |-> r.h, buffered |-> TRUE,
                       buf |-> file.recs]
    /\ last' = [op |-> "peer open", res |-> "ok"]
    /\ UNCHANGED <<h, file, shadow, minted, items, moves, codec, crashes>>

\* a successful add_record on the second instance; its last write empties
\* the read buffer
PeerAddRecord(key, packed) ==
    /\ peer.open
    /\ peer.h.free_head # 0 - 1 \/ records_count(file) < MaxRecs
    /\ \E a \in PeerAllocs :
          LET r == add_record_at(a, file, key, packed)
          IN  /\ r.res = "ok"
              /\ peer' = [open |-> TRUE, h |-> r.h, buffered |-> FALSE,
                          buf |-> <<>>]
              /\ file' = r.file
              /\ last' = [op |-> "peer add_record", res |-> r.res]
    /\ UNCHANGED <<h, shadow, minted, items, moves, codec, crashes>>

\* two instances on one file, operations taken one at a time; the calls are
\* those that succeed, so that the first instance starts each call with an
\* empty read buffer
NextPeers ==
    \/ \E k \in ValidKeys, d \in Data :
          add_record(h, file, k, Pack(1, d)).res = "ok" /\ AddRecord(k, Pack(1, d))
    \/ \E k \in ValidKeys :
          delete_record(h, file, k).res = "ok" /\ DeleteRecord(k)
    \/ PeerOpen
    \/ \E k \in ValidKeys, d \in Data : PeerAddRecord(k, Pack(1, d))

SpecPeers == Init /\ [][NextPeers]_vars

\* inserts keyed by the ids that next_id mints, 1, 2, 3, ..., and deletes of
\* ordinary keys
NextMono ==
    \/ \E d \in Data : AddCategory(d)
    \/ \E k \in ValidKeys : DeleteRecord(k)

SpecMono == Init /\ [][NextMono]_vars

\* ---------------------------------------------------- the codec on its own
\* strings given to pack: a run of 'a' that ends near a field width,
\* followed by up to MaxTail characters of any kind
Chars == {ChA, ChNul, ChE, ChK}
Rep(k) == [i \in 1 .. k |-> ChA]
Tails == UNION {[1 .. n -> Chars] : n \in 0 .. MaxTail}
Lengths == {0} \cup (NameWidth - 3 .. NameWidth) \cup (DescWidth - 3 .. DescWidth)
Strings == {Rep(k) \o t : k \in Lengths, t \in Tails}
\* values of the one-byte and of the four-byte fields
ByteValues == {0, 1, 255}
Numbers == {Small(0), Small(1), U32Max}
Kinds == {Magic, ItemMagic, MoveMagic}
CodecInputs ==
    [stage : {"input"}, kind : Kinds, flag : ByteValues, v : Numbers,
     s : Strings, raw : {<<>>}]

InitCodec ==
    /\ h = HeaderNew(Magic, RSize, Slots)
    /\ file = NewTable(Magic, RSize, Slots).file
    /\ last = [op |-> "open", res |-> "ok"]
    /\ shadow = [k \in ValidKeys |-> NotFound]
    /\ minted = {}
    /\ items = NewTable(ItemMagic, ItemSize, Slots)
    /\ moves = NewTable(MoveMagic, MoveSize, Slots)
    /\ codec \in CodecInputs
    /\ peer = PeerClosed
    /\ crashes = 0

PackRecord ==
    /\ codec.stage = "input"
    /\ codec' = [codec EXCEPT !.stage = "packed",
                              !.raw = pack_kind(codec.kind, codec.flag, codec.v, codec.s)]
    /\ UNCHANGED <<h, file, last, shadow, minted, items, moves, peer, crashes>>

UnpackRecord ==
    /\ codec.stage = "packed"
    /\ codec' = [stage |-> "unpacked", kind |-> codec.kind, flag |-> codec.flag,
                 v |-> codec.v, s |-> codec.s, raw |-> codec.raw,
                 out |-> unpack_kind(codec.kind, codec.raw)]
    /\ UNCHANGED <<h, file, last, shadow, minted, items, moves, peer, crashes>>

NextCodec ==
    \/ PackRecord
    \/ UnpackRecord

SpecCodec == InitCodec /\ [][NextCodec]_vars

\* ------------------------------------------------------- index vocabulary
SlotIds == 0 .. Slots - 1
Occupied(sl) == sl.key # 0 /\ sl.key # TOMBSTONE_KEY
\* the slots that hold key k as a live key
SlotsOf(k) == {s \in SlotIds : Occupied(file.index[s]) /\ file.index[s].key = k}
Live(k) == SlotsOf(k) # {}

\* -------------------------------------------------------------------- C1
\* C1: within the session that created the file, with every call made on a
\* key in 1..0xFFFFFFFE, read_record(K) returns the bytes of the most recent
\* successful add_record/update_record of K when K was inserted and not
\* deleted since, and not-found for every other key (shadow is that map).
C1_MapRefinement ==
    \A k \in ValidKeys : read_record(h, file, k) = shadow[k]

\* a live key that sits past a tombstone of its probe chain and holds updated
\* bytes, right after a call that failed
C1_Witness ==
    /\ last.res \in {"duplicate key", "index full", "not found"}
    /\ \E k \in ValidKeys :
          /\ shadow[k] = Found(Pack(1, 2))
          /\ read_slot(file, hash(h, k)).key = TOMBSTONE_KEY
    /\ \E k \in ValidKeys : shadow[k] = NotFound /\ h.deleted_count > 0

\* -------------------------------------------------------------------- C2
\* C2: add_record(K, ...) for a key K that is live fails with duplicate key,
\* and no two OCCUPIED index slots ever hold the same key.
C2_Uniqueness ==
    /\ \A k \in ValidKeys : Cardinality(SlotsOf(k)) <= 1
    /\ \A k \in ValidKeys, d \in Data :
          Live(k) => add_record(h, file, k, Pack(1, d)).res = "duplicate key"

\* an insert of a live key has just been refused while another key is live
\* and a tombstone is in the index
C2_Witness ==
    /\ last = [op |-> "add_record", res |-> "duplicate key"]
    /\ Cardinality({k \in ValidKeys : Live(k)}) >= 2
    /\ \E s \in SlotIds : file.index[s].key = TOMBSTONE_KEY

\* -------------------------------------------------------------------- C3
Range(sq) == {sq[i] : i \in 1 .. Len(sq)}

\* what C3 asks of the state after delete_record(k) deleted position ri
SoftDeleted(k, ri, before, hd, after) ==
    /\ read_record(hd, after, k) = NotFound
    /\ \E e \in Range(iter_all(after)) :
          /\ e[1] = ri
          /\ e[2].flag = 0
          /\ e[2].data = read_raw(before, ri).data
    /\ \A e \in Range(iter_active(after)) : e[1] # ri

\* C3: right after a successful delete_record(K), read_record(K) is
\* not-found, iter_all still yields the record at K's former position with
\* flag 0 and its payload unchanged, and iter_active does not yield it.
C3_SoftDeleteStep ==
    \A k \in AllKeys :
        (DeleteRecord(k) /\ last'.res = "ok")
            => SoftDeleted(k, lookup(h, file, k), file, h', file')

C3_SoftDelete == [][C3_SoftDeleteStep]_vars

\* -------------------------------------------------------------------- C4
\* delete_record(k1) frees a position, an insert fails, and the next insert
\* that succeeds must still get that position without growing the region
ReusesFreed(k1, k2, k3) ==
    LET d == delete_record(h, file, k1)
        a == add_record(d.h, d.file, k2, Pack(1, 1))
        b == add_record(a.h, a.file, k3, Pack(1, 1))
    IN  (d.res = "ok" /\ a.res # "ok" /\ b.res = "ok")
            => /\ b.pos = d.pos
               /\ records_count(b.file) = records_count(file)

\* C4: the position freed by a delete is the position used by the very next
\* successful add_record, which does not grow the record region, and
\* record_count() increases, by exactly 1, only for a successful insert
\* performed while free_head = -1.
C4_FreeListStep ==
    /\ \A k1, k2, k3 \in ValidKeys : ReusesFreed(k1, k2, k3)
    /\ records_count(file') # records_count(file)
          => /\ last' = [op |-> "add_record", res |-> "ok"]
             /\ h.free_head = 0 - 1
             /\ records_count(file') = records_count(file) + 1

C4_FreeList == [][C4_FreeListStep]_vars

\* -------------------------------------------------------------------- C5
\* the first tombstone on the probe path of key, or -1
RECURSIVE FirstTombFrom(_, _)
FirstTombFrom(key, i) ==
    IF i = Slots THEN 0 - 1
    ELSE LET j == (hash(h, key) + i) % Slots
         IN  IF file.index[j].key = TOMBSTONE_KEY THEN j
             ELSE FirstTombFrom(key, i + 1)

\* C5: add_record fails with index full only when no slot is EMPTY or
\* TOMBSTONE; when the key is absent and the index has a tombstone the insert
\* succeeds and stores the key in the first tombstone of its probe path.
C5_IndexFullStep ==
    \A k \in ValidKeys, d \in Data :
        AddRecord(k, Pack(1, d)) =>
            /\ last'.res = "index full"
                  => \A s \in SlotIds : Occupied(file.index[s])
            /\ (~Live(k) /\ FirstTombFrom(k, 0) >= 0
                    /\ \A s \in SlotIds : file.index[s].key # 0)
                  => /\ last'.res = "ok"
                     /\ file'.index[FirstTombFrom(k, 0)].key = k

C5_IndexFull == [][C5_IndexFullStep]_vars

\* -------------------------------------------------------------------- C6
\* C6: update_record(K, ...) and delete_record(K) on a key K that is absent
\* fail with not-found and leave the index, every record, record_count()
\* and the header unchanged.
C6_AbsentStep ==
    \A k \in AllKeys :
        ~Live(k) =>
            /\ \A d \in Data :
                  UpdateRecord(k, Pack(1, d))
                      => last'.res = "not found" /\ file' = file /\ h' = h
            /\ DeleteRecord(k)
                  => last'.res = "not found" /\ file' = file /\ h' = h

C6_AbsentKey == [][C6_AbsentStep]_vars

\* -------------------------------------------------------------------- C7
HeaderFields == {"next_id", "active_count", "deleted_count", "free_head", "index_slots"}

\* C7: between calls the header stored in the file equals the header held
\* in memory, field by field.
C7_HeaderSynced ==
    \A fld \in HeaderFields : file.hdr[fld] = h[fld]

\* -------------------------------------------------------------------- C8
\* C8: close() followed by open() leaves the result of read_record unchanged
\* for every key, and the calls made after it keep the table a key->record
\* map: no add_record overwrites the record of a key that is still live.
C8_PersistStep ==
    /\ Reopen => \A k \in ValidKeys :
                     read_record(h', file', k) = read_record(h, file, k)
    /\ \A k \in ValidKeys : shadow'[k] = read_record(h', file', k)

C8_Persistence == [][C8_PersistStep]_vars

\* -------------------------------------------------------------------- C9
OccupiedSlots == {s \in SlotIds : Occupied(file.index[s])}

\* the change of (active_count, deleted_count) made by a call with result r
CountDelta(r) ==
    <<r.h.active_count - h.active_count, r.h.deleted_count - h.deleted_count>>

\* C9: with keys in 1..0xFFFFFFFE, active_count equals the number of
\* OCCUPIED index slots and is never negative; a successful insert adds 1 to
\* it, a successful delete takes 1 from it and adds 1 to deleted_count,
\* update and failed calls leave both counters unchanged.
C9_Counters ==
    /\ h.active_count = Cardinality(OccupiedSlots)
    /\ h.active_count >= 0
    /\ \A k \in ValidKeys :
          /\ LET r == delete_record(h, file, k)
             IN  CountDelta(r) = IF r.res = "ok" THEN <<0 - 1, 1>> ELSE <<0, 0>>
          /\ \A d \in Data :
                /\ LET r == add_record(h, file, k, Pack(1, d))
                   IN  CountDelta(r) = IF r.res = "ok" THEN <<1, 0>> ELSE <<0, 0>>
                /\ CountDelta(update_record(h, file, k, Pack(1, d))) = <<0, 0>>

\* a delete has just succeeded, a key is still live and a second record was
\* deleted before
C9_Witness ==
    /\ last = [op |-> "delete_record", res |-> "ok"]
    /\ h.active_count >= 1
    /\ h.deleted_count >= 2

\* ------------------------------------------------------------------- C10
Max(S) == CHOOSE x \in S : \A y \in S : y <= x

\* C10: the first next_id() of a fresh table returns 1, every later call
\* returns the previous value plus 1, never 0 and never a value returned
\* before (minted), and add_record under the id just minted does not fail
\* with duplicate key.
C10_IdMinting ==
    LET n == next_id(h, file)
    IN  n.ok =>
            /\ n.nid # 0
            /\ n.nid \notin minted
            /\ n.nid = IF minted = {} THEN 1 ELSE Max(minted) + 1
            /\ \A d \in Data :
                  add_record(n.h, n.file, n.nid, Pack(1, d)).res # "duplicate key"

\* every id up to MaxKey was minted, records were deleted, and the insert
\* under the last id failed
C10_Witness ==
    /\ last = [op |-> "add_category", res |-> "index full"]
    /\ minted = 1 .. MaxKey
    /\ h.deleted_count >= 1

\* ------------------------------------------------------------------- C11
StrictlyAscending(sq) == \A i, j \in 1 .. Len(sq) : i < j => sq[i][1] < sq[j][1]

\* C11: iter_all yields every record position 0..record_count()-1 exactly
\* once in ascending order, each with the record stored there; iter_active
\* yields exactly those of them whose flag byte is 1, in the same order; both
\* are finite and are determined by the file alone, so a second scan of an
\* unchanged file yields the same sequence.
C11_Iteration ==
    LET all == iter_all(file)
        act == iter_active(file)
    IN  /\ Len(all) = records_count(file)
        /\ \A i \in 1 .. Len(all) : all[i] = <<i - 1, read_raw(file, i - 1)>>
        /\ StrictlyAscending(act)
        /\ Range(act) = {e \in Range(all) : e[2].flag = 1}

\* a region of three records in which a soft-deleted record lies between
\* two active ones
C11_Witness ==
    /\ records_count(file) = 3
    /\ read_raw(file, 0).flag = 1
    /\ read_raw(file, 1).flag = 0
    /\ read_raw(file, 2).flag = 1
    /\ Len(iter_active(file)) = 2

\* ------------------------------------------------------------------- C12
ItemExists(it, iid) == read_record(it.h, it.file, iid).found
ItemQty(it, iid) == ItemsUnpack(read_record(it.h, it.file, iid).raw).qty

\* what C12 asks of add_movement(iid, n, typ) on an existing item
QuantityPolicy(iid, n, typ) ==
    LET Q == ItemQty(items, iid)
        r == add_movement(items, moves, iid, n, typ)
        after == ItemQty(r.items, iid)
    IN  /\ (typ = Issue /\ Leq(n, Q)) => after = Minus(Q, n)
        /\ (typ = Issue /\ ~Leq(n, Q)) => (r.items = items /\ r.moves = moves)
        /\ typ = Return => after = Plus(Q, n)
        /\ typ \in {Transfer, Repair} => after = Q

\* C12: for an existing item with quantity Q and an amount n > 0, issue with
\* n <= Q sets the quantity to Q-n, issue with n > Q is rejected with the
\* item, the movements table and the movement id counter unchanged, return
\* sets the quantity to Q+n, and transfer and repair leave it unchanged.
C12_QuantityPolicy ==
    \A iid \in ItemKeys, n \in Amounts \ {Small(0)}, typ \in MoveTypes :
        ItemExists(items, iid) => QuantityPolicy(iid, n, typ)

\* ------------------------------------------------------------------- C13
ActiveItems == {ItemsUnpack(e[2]) : e \in Range(iter_active(items.file))}

\* C13: add_item and update_item are rejected unless the given cat_id is a
\* live category key, delete_category is rejected while an active item names
\* the category, and so every active item's cat_id is the key of a live
\* category.
C13_Referential ==
    /\ \A it \in ActiveItems : Live(it.cat_id)
    /\ \A c \in AllKeys :
          /\ ~Live(c) => add_item(Cats, items, c, Small(1)).res = "category not found"
          /\ ~Live(c) => \A i \in ItemKeys :
                update_item(Cats, items, i, c, Small(1)).res
                    \in {"category not found", "item not found"}
          /\ (\E it \in ActiveItems : it.cat_id = c)
                => delete_category(Cats, items, c).res = "referenced"

\* ------------------------------------------------------------------- C14
Files == {file, items.file, moves.file}

\* C14: open() of an existing file whose magic or record_size differs from
\* the table's schema fails with a format error and leaves the file as it
\* was; open() of a matching file succeeds and takes index_slots from the
\* stored header, whatever the constructor was given; no operation changes
\* the stored index_slots.
C14_OpenFormat ==
    /\ \A fl \in Files, sc \in Schemas :
          LET r == open_existing(sc[1], sc[2], sc[3], fl)
          IN  /\ r.file = fl
              /\ (fl.hdr.magic # sc[1] \/ fl.hdr.record_size # sc[2])
                    => r.res = "bad file format"
              /\ (fl.hdr.magic = sc[1] /\ fl.hdr.record_size = sc[2])
                    => r.res = "ok" /\ r.h.index_slots = fl.hdr.index_slots
    /\ h.index_slots = Slots
    /\ \A fl \in Files : fl.hdr.index_slots = Slots

\* the categories file, holding a live record and a tombstone, has just
\* been refused by a table of another kind
C14_Witness ==
    /\ last = [op |-> "open", res |-> "bad file format"]
    /\ \E k \in ValidKeys : Live(k)
    /\ \E s \in SlotIds : file.index[s].key = TOMBSTONE_KEY

\* ------------------------------------------------------------------- C15
\* the string fields of a table kind with their widths, its four-byte
\* fields, its one-byte fields, its record size and its reserved tail
StringFields(kind) ==
    IF kind = Magic THEN {<<"name", NameWidth>>, <<"desc", DescWidth>>}
    ELSE IF kind = ItemMagic THEN {<<"name", NameWidth>>}
    ELSE {<<"operator", NameWidth>>}
NumFields(kind) ==
    IF kind = Magic THEN {"cat_id"}
    ELSE IF kind = ItemMagic THEN {"item_id", "cat_id", "qty", "price_cents"}
    ELSE {"move_id", "item_id", "ymd", "qty", "type"}
ByteFields(kind) == IF kind = ItemMagic THEN {"flag", "status"} ELSE {"flag"}
RecordSize(kind) ==
    IF kind = Magic THEN RSize ELSE IF kind = ItemMagic THEN ItemSize ELSE MoveSize
TailSize(kind) ==
    IF kind = Magic THEN CatTail ELSE IF kind = ItemMagic THEN ItemTail ELSE MoveTail

Fits(s, n) == Len(encode(s)) <= n
NoTrailingNul(s) == s = <<>> \/ s[Len(s)] # ChNul
\* the longest prefix of s whose encoding fits n bytes
RECURSIVE TruncTo(_, _)
TruncTo(s, n) == IF Fits(s, n) THEN s ELSE TruncTo(SubSeq(s, 1, Len(s) - 1), n)
\* s without its trailing NUL characters
RECURSIVE StripNul(_)
StripNul(s) == IF NoTrailingNul(s) THEN s ELSE StripNul(SubSeq(s, 1, Len(s) - 1))

\* pack gives record_size bytes with a zeroed reserved tail, and unpack
\* gives back the flag and the numeric fields
SizeAndNumbers ==
    /\ codec.stage \in {"packed", "unpacked"} =>
          /\ Len(codec.raw) = RecordSize(codec.kind)
          /\ \A i \in 1 .. TailSize(codec.kind) :
                codec.raw[RecordSize(codec.kind) + 1 - i] = 0
    /\ codec.stage = "unpacked" =>
          /\ \A f \in ByteFields(codec.kind) : codec.out[f] = codec.flag
          /\ \A f \in NumFields(codec.kind) : codec.out[f] = codec.v

\* C15 as stated: unpack(pack(...)) returns the flag and the numeric fields,
\* returns a string field unchanged when its encoding fits the field width
\* and it has no trailing NUL, and truncated to the field width otherwise;
\* pack gives record_size bytes with the reserved tail zeroed.
C15_RoundTrip_AsStated ==
    /\ SizeAndNumbers
    /\ codec.stage = "unpacked" =>
          \A f \in StringFields(codec.kind) :
              codec.out[f[1]] = IF Fits(codec.s, f[2]) /\ NoTrailingNul(codec.s)
                                THEN codec.s
                                ELSE TruncTo(codec.s, f[2])

\* the field is cut inside a multi-byte character
CutInside(s, n) == ~Fits(s, n) /\ Len(encode(TruncTo(s, n))) < n

\* C15, amended: a string field comes back as the longest prefix whose
\* encoding fits the field width (the whole string when it fits), without
\* the trailing NUL characters of that prefix unless the field was cut
\* inside a multi-byte character -- hence unchanged when it fits and has no
\* trailing NUL; flag, numeric fields, record size and zeroed tail as stated.
C15_RoundTrip ==
    /\ SizeAndNumbers
    /\ codec.stage = "unpacked" =>
          \A f \in StringFields(codec.kind) :
              codec.out[f[1]] = IF CutInside(codec.s, f[2])
                                THEN TruncTo(codec.s, f[2])
                                ELSE StripNul(TruncTo(codec.s, f[2]))

\* a categories record came back whose name was cut inside a three-byte
\* character, with the largest numeric values
C15_Witness ==
    /\ codec.stage = "unpacked"
    /\ codec.kind = Magic
    /\ codec.v = U32Max
    /\ codec.flag = 255
    /\ codec.s = Rep(NameWidth - 1) \o <<ChK>>
    /\ codec.out.name = Rep(NameWidth - 1)
    /\ codec.out.desc = codec.s

\* ------------------------------------------------------------------- C16
\* the slot met at step i (1 .. Slots) of the cyclic probe path of key k
ProbeSlot(k, i) == (hash(h, k) + i - 1) % Slots
\* the steps of k's path at which an EMPTY slot is met
EmptySteps(k) == {i \in 1 .. Slots : file.index[ProbeSlot(k, i)].key = 0}
Min(S) == CHOOSE x \in S : \A y \in S : x <= y
\* the steps before the first EMPTY slot at which a TOMBSTONE is met
TombSteps(k) ==
    {i \in 1 .. Min(EmptySteps(k)) :
        file.index[ProbeSlot(k, i)].key = TOMBSTONE_KEY}
\* the slot the rule of C16 names for an insert of k
ChosenSlot(k) ==
    IF TombSteps(k) # {} THEN ProbeSlot(k, Min(TombSteps(k)))
    ELSE ProbeSlot(k, Min(EmptySteps(k)))

C17_FailedAdd ==
    \A k \in ValidKeys, d \in Data :
        LET r == add_record(h, file, k, Pack(1, d))
        IN  r.res \in {"duplicate key", "index full"} =>
               /\ r.file.recs = file.recs
               /\ r.file.index = file.index
               /\ r.h.free_head = h.free_head
               /\ r.h.active_count = h.active_count
               /\ r.h.deleted_count = h.deleted_count

\* ------------------------------------------------------------------- C18
\* the positions met by following the next-free pointers from position p,
\* for at most n steps and as long as the position holds a record
RECURSIVE FreeWalk(_, _, _)
FreeWalk(fl, p, n) ==
    IF n = 0 \/ p < 0 \/ p >= records_count(fl) THEN <<>>
    ELSE <<p>> \o FreeWalk(fl, read_raw(fl, p).next_free, n - 1)

\* the free-list of the open table
FreeList == FreeWalk(file, h.free_head, records_count(file) + 1)
\* the OCCUPIED slots that reference position p
Referring(p) ==
    {s \in SlotIds : Occupied(file.index[s]) /\ file.index[s].rec_index = p}

\* C18: between operations, with flag byte 1 and keys in 1..0xFFFFFFFE,
\* every record position is either referenced by exactly one OCCUPIED slot
\* and has flag 1, or is on the free-list and has flag 0; iter_active yields
\* exactly the records of the live keys, as many as active_count, and
\* record_count() = active_count + length of the free-list.
C18_Partition ==
    /\ \A p \in 0 .. records_count(file) - 1 :
          \/ Cardinality(Referring(p)) = 1 /\ read_raw(file, p).flag = 1
          \/ p \in Range(FreeList) /\ read_raw(file, p).flag = 0
    /\ {e[1] : e \in Range(iter_active(file))} =
          {lookup(h, file, k) : k \in {x \in ValidKeys : Live(x)}}
    /\ Len(iter_active(file)) = h.active_count
    /\ records_count(file) = h.active_count + Len(FreeList)

\* ------------------------------------------------------------------- C19
ReservedKeys == {0, TOMBSTONE_KEY}
Untouched(r) == r.h = h /\ r.file = file

\* C19: in every reachable state read_record, update_record and
\* delete_record of key 0 and of key 0xFFFFFFFF report not-found and change
\* no record, no index slot and no header field, and add_record of key 0 or
\* 0xFFFFFFFF creates no index entry.
C19_ReservedKeys ==
    \A k \in ReservedKeys :
        /\ read_record(h, file, k) = NotFound
        /\ delete_record(h, file, k).res = "not found"
        /\ Untouched(delete_record(h, file, k))
        /\ \A d \in Data :
              /\ update_record(h, file, k, Pack(1, d)).res = "not found"
              /\ Untouched(update_record(h, file, k, Pack(1, d)))
              /\ add_record(h, file, k, Pack(1, d)).res # "ok"
              /\ add_record(h, file, k, Pack(1, d)).file.index = file.index

\* ------------------------------------------------------------------- C20
\* the pointer at which the walk of the free-list stops
WalkEnd ==
    IF FreeList = <<>> THEN h.free_head
    ELSE read_raw(file, FreeList[Len(FreeList)]).next_free

\* C20: between operations (failed inserts and close/reopen included),
\* following free_head through the next-free pointers reaches -1 after
\* finitely many steps without visiting a position twice, and every visited
\* position is below record_count(), holds a record with flag 0 and is
\* referenced by no OCCUPIED index slot.
C20_FreeListWellFormed ==
    /\ WalkEnd = 0 - 1
    /\ Cardinality(Range(FreeList)) = Len(FreeList)
    /\ \A p \in Range(FreeList) :
          /\ p < records_count(file)
          /\ read_raw(file, p).flag = 0
          /\ Referring(p) = {}

\* ------------------------------------------------------------------- C21
\* the steps (1 .. Slots) of k's probe path at which slot s is met
StepsTo(k, s) == {i \in 1 .. Slots : ProbeSlot(k, i) = s}
\* no slot of k's probe path before slot s is EMPTY
ChainUnbroken(k, s) ==
    \A i \in 1 .. Slots :
        (\A j \in StepsTo(k, s) : i < j) => file.index[ProbeSlot(k, i)].key # 0
\* key k is found by _lookup in the table (hd, fl)
Reachable(hd, fl, k) == lookup(hd, fl, k) >= 0

\* C21: for every live key K stored in slot s no slot of the cyclic probe
\* path from K mod index_slots up to s is EMPTY; _lookup(K) and
\* _slot_of_key(K) identify that same slot; and no insert or delete of
\* another key makes K unreachable by _lookup.
C21_ProbeChain ==
    \A k \in ValidKeys : \A s \in SlotsOf(k) :
        /\ ChainUnbroken(k, s)
        /\ slot_of_key(h, file, k) = s
        /\ lookup(h, file, k) = file.index[s].rec_index
        /\ \A k2 \in ValidKeys \ {k} :
              /\ LET r == delete_record(h, file, k2)
                 IN  Reachable(r.h, r.file, k) /\ slot_of_key(r.h, r.file, k) = s
              /\ LET r == add_record(h, file, k2, Pack(1, 1))
                 IN  Reachable(r.h, r.file, k) /\ slot_of_key(r.h, r.file, k) = s

\* a live key sits two steps past its home slot, behind a tombstone and a
\* live key, right after the delete that left the tombstone
C21_Witness ==
    /\ last = [op |-> "delete_record", res |-> "ok"]
    /\ \E k \in ValidKeys :
          /\ ProbeSlot(k, 3) \in SlotsOf(k)
          /\ file.index[ProbeSlot(k, 1)].key = TOMBSTONE_KEY
          /\ Occupied(file.index[ProbeSlot(k, 2)])

\* ------------------------------------------------------------------- C22
LiveKeys == {k \in ValidKeys : Live(k)}
NoEmptySlot == \A s \in SlotIds : file.index[s].key # 0

\* C22: tombstones consume the capacity of the index: once no slot is EMPTY
\* add_record of an absent key fails with index full, however few keys are
\* live, and inserts and deletes with increasing keys reach such a state
\* with fewer live keys than index_slots.
C22_Exhaustion ==
    \A k \in ValidKeys :
        LET r == add_record(h, file, k, Pack(1, 1))
        IN  /\ (NoEmptySlot /\ ~Live(k)) => r.res = "index full"
            /\ r.res = "index full" => NoEmptySlot

\* an insert with the next id has just failed with index full while a single
\* key is live and the other slots are tombstones
C22_Witness ==
    /\ last = [op |-> "add_category", res |-> "index full"]
    /\ Cardinality(LiveKeys) = 1
    /\ Cardinality(LiveKeys) < Slots
    /\ Cardinality({s \in SlotIds : file.index[s].key = TOMBSTONE_KEY}) = Slots - 1

\* ------------------------------------------------------------------- C23
\* the OCCUPIED slots of the index ix that reference position p
ReferringIn(ix, p) ==
    {s \in SlotIds : Occupied(ix[s]) /\ ix[s].rec_index = p}

\* C23: with two instances open on the same file, each holding a header
\* with free_head = p # -1, a successful add_record of a key by one instance
\* followed by a successful add_record of another key by the other instance
\* gives position p to both, and two OCCUPIED slots (or more) reference
\* position p.
C23_SharedFreeHead ==
    (peer.open /\ h.free_head # 0 - 1 /\ peer.h.free_head = h.free_head) =>
        \A k1, k2 \in ValidKeys :
            LET a == add_record(h, file, k1, Pack(1, 1))
            IN  \A pa \in PeerAllocsOn(a.file) :
                    LET b == add_record_at(pa, a.file, k2, Pack(1, 2))
                    IN  (k1 # k2 /\ a.res = "ok" /\ b.res = "ok") =>
                           /\ a.pos = h.free_head
                           /\ b.pos = h.free_head
                           /\ Cardinality(ReferringIn(b.file.index, h.free_head)) >= 2

\* the second instance has just inserted a key, and two OCCUPIED slots with
\* different keys reference the same record position
C23_Witness ==
    /\ last = [op |-> "peer add_record", res |-> "ok"]
    /\ \E s1, s2 \in SlotIds :
          /\ s1 # s2
          /\ Occupied(file.index[s1]) /\ Occupied(file.index[s2])
          /\ file.index[s1].key # file.index[s2].key
          /\ file.index[s1].rec_index = file.index[s2].rec_index

\* ------------------------------------------------------------------- C24
\* number of OCCUPIED slots of the file fl less the active_count of its header
Surplus(fl) ==
    Cardinality({s \in SlotIds : Occupied(fl.index[s])}) - fl.hdr.active_count
\* open() of the file fl takes the header as it is and writes nothing
NoRepair(fl) ==
    LET r == open_existing(Magic, RSize, Slots, fl)
    IN  r.res = "ok" /\ r.h = fl.hdr /\ r.file = fl

\* C24: a process that stops inside add_record or delete_record after the
\* slot write and before the header write leaves a file whose OCCUPIED
\* slots are one more, respectively one fewer, than before while
\* active_count is what it was, and open() takes that file as it is: the
\* reopened table can have active_count different from the number of
\* OCCUPIED slots.
C24_NoCrashConsistency ==
    /\ NoRepair(file)
    /\ \A k \in ValidKeys :
          /\ LET c == crash_add(h, file, k, Pack(1, 1), "slot")
             IN  c.reached =>
                    /\ Surplus(c.file) = Surplus(file) + 1
                    /\ NoRepair(c.file)
          /\ LET c == crash_delete(h, file, k, "slot")
             IN  c.reached =>
                    /\ Surplus(c.file) = Surplus(file) - 1
                    /\ NoRepair(c.file)

\* the table reopened after a stop inside add_record has one OCCUPIED slot
\* more than its active_count says
C24_Witness ==
    /\ last = [op |-> "crash in add_record", res |-> "slot"]
    /\ h = file.hdr
    /\ h.active_count = 1
    /\ Cardinality(OccupiedSlots) = 2

\* ------------------------------------------------------------------- C25
\* C25: update_record(K, bytes) on a live key K succeeds and rewrites only
\* the record at K's position: the index (K's slot and position included),
\* every other record, record_count() and the header fields active_count,
\* deleted_count, free_head and next_id are what they were, and read_record
\* of every other key returns what it returned before.
C25_UpdateFrame ==
    \A k \in ValidKeys, d \in Data :
        Live(k) =>
            LET r == update_record(h, file, k, Pack(1, d))
                ri == lookup(h, file, k)
            IN  /\ r.res = "ok"
                /\ r.pos = ri
                /\ r.file.index = file.index
                /\ r.file.recs = [file.recs EXCEPT ![ri + 1] = Pack(1, d)]
                /\ records_count(r.file) = records_count(file)
                /\ r.h = h
                /\ r.file.hdr = h
                /\ read_record(r.h, r.file, k) = Found(Pack(1, d))
                /\ \A k2 \in ValidKeys \ {k} :
                      read_record(r.h, r.file, k2) = read_record(h, file, k2)

\* ------------------------------------------------------------------- C26
\* the call with outcome r has left a movement record that was not there
LeavesMovement(r) == r.moves.file.recs # moves.file.recs

\* C26: whenever add_movement leaves a new movement record of type issue or
\* return, the stored quantity Q of the item is afterwards Q-n respectively
\* Q+n: no outcome stores the movement and leaves the quantity unadjusted.
C26_AllOrNothing ==
    \A iid \in ItemKeys, n \in Amounts, typ \in {Issue, Return} :
        ItemExists(items, iid) =>
            LET Q == ItemQty(items, iid)
                r == add_movement(items, moves, iid, n, typ)
            IN  LeavesMovement(r) =>
                    ItemQty(r.items, iid) =
                        IF typ = Issue THEN Minus(Q, n) ELSE Plus(Q, n)

\* ------------------------------------------------------------------- C27
\* mid is the key of a live movement
MoveLive(mid) ==
    \E s \in SlotIds :
        Occupied(moves.file.index[s]) /\ moves.file.index[s].key = mid

\* C27: delete_movement never changes an item record, so the quantity the
\* movement adjusted stays adjusted; on a live move_id it clears the flag of
\* that movement's record and changes no other movement's bytes; on an
\* absent move_id it changes nothing.
C27_DeleteMovement ==
    \A mid \in AllMoveIds :
        LET r == delete_movement(items, moves, mid)
            ri == lookup(moves.h, moves.file, mid)
        IN  /\ r.items = items
            /\ MoveLive(mid) =>
                  /\ r.res = "ok"
                  /\ read_raw(r.moves.file, ri).flag = 0
                  /\ \A p \in 0 .. records_count(moves.file) - 1 :
                        p # ri => read_raw(r.moves.file, p) = read_raw(moves.file, p)
            /\ ~MoveLive(mid) => (r.res = "not found" /\ r.moves = moves)

\* ------------------------------------------------------------------- C28
SlotState(sl) ==
    IF sl.key = 0 THEN "EMPTY"
    ELSE IF sl.key = TOMBSTONE_KEY THEN "TOMBSTONE" ELSE "OCCUPIED"
AllowedMoves ==
    {<<"EMPTY", "OCCUPIED">>, <<"OCCUPIED", "TOMBSTONE">>,
     <<"TOMBSTONE", "OCCUPIED">>}
EmptySlots(ix) == {s \in SlotIds : ix[s].key = 0}
Monotone(ix, ix2) ==
    /\ \A s \in SlotIds :
          \/ SlotState(ix2[s]) = SlotState(ix[s])
          \/ <<SlotState(ix[s]), SlotState(ix2[s])>> \in AllowedMoves
    /\ Cardinality(EmptySlots(ix2)) <= Cardinality(EmptySlots(ix))

\* C28: in every reachable state, whatever operation comes next (an insert,
\* an update or a delete of any key, or close and reopen) changes a slot's
\* state only from EMPTY to OCCUPIED, from OCCUPIED to TOMBSTONE or from
\* TOMBSTONE to OCCUPIED: no slot becomes EMPTY again and the number of
\* EMPTY slots does not increase.
C28_Monotone ==
    /\ \A k \in AllKeys :
          /\ Monotone(file.index, add_record(h, file, k, Pack(1, 1)).file.index)
          /\ Monotone(file.index, update_record(h, file, k, Pack(1, 1)).file.index)
          /\ Monotone(file.index, delete_record(h, file, k).file.index)
    /\ Monotone(file.index, open_existing(Magic, RSize, Slots, file).file.index)

\* ------------------------------------------------------------------- C29
\* sessions of successful inserts and deletes only, with close and reopen
NextDone ==
    \/ \E k \in ValidKeys, d \in Data :
          add_record(h, file, k, Pack(1, d)).res = "ok" /\ AddRecord(k, Pack(1, d))
    \/ \E k \in ValidKeys :
          delete_record(h, file, k).res = "ok" /\ DeleteRecord(k)
    \/ Reopen

SpecDone == Init /\ [][NextDone]_vars

\* the positions of the physical records whose flag byte is 0
FlagZero(fl) == {p \in 0 .. records_count(fl) - 1 : read_raw(fl, p).flag = 0}
\* the deletes counted in the header beyond the records now soft-deleted
Recycled(hd, fl) == hd.deleted_count - Cardinality(FlagZero(fl))
\* this step is a successful insert into a freed position
ReusingInsert ==
    /\ h'.active_count = h.active_count + 1
    /\ records_count(file') = records_count(file)

\* C29 as stated: between operations deleted_count is the number of records
\* whose flag byte is 0, which is the free-list length, and
\* active_count + deleted_count = record_count().
C29_DeletedCount_AsStated ==
    /\ h.deleted_count = Cardinality(FlagZero(file))
    /\ h.deleted_count = Len(FreeList)
    /\ h.active_count + h.deleted_count = records_count(file)

C29_Step ==
    /\ Cardinality(FlagZero(file')) = Len(FreeWalk(file', h'.free_head, records_count(file') + 1))
    /\ h'.active_count + Cardinality(FlagZero(file')) = records_count(file')
    /\ h'.deleted_count >= h.deleted_count
    /\ Recycled(h', file') = Recycled(h, file) + (IF ReusingInsert THEN 1 ELSE 0)
    /\ h'.active_count + h'.deleted_count = records_count(file') + Recycled(h', file')

\* C29 as amended: over successful inserts and deletes deleted_count is
\* never decremented; it exceeds the number of records whose flag byte is 0
\* (the free-list length) by one for every insert that reused a freed
\* position, and active_count + deleted_count exceeds record_count() by the
\* same number, while active_count + free-list length = record_count().
C29_DeletedCount == [][C29_Step]_vars

\* an insert has reused a freed position: one delete is counted, no record
\* is soft-deleted and the only record is active
C29_Witness ==
    /\ last = [op |-> "add_record", res |-> "ok"]
    /\ h.deleted_count = 1
    /\ FlagZero(file) = {}
    /\ h.active_count = 1
    /\ records_count(file) = 1

\* ------------------------------------------------------------------- C30
\* ---- seed_inventory_data.py: the tables are created empty by open_new,
\* ---- and _lookup, read_record, update_record, next_id and
\* ---- _find_slot_for_insert read as they do in the main program
\* BinTable.add_record of the seeding script: the record is always appended
seed_add_record(hd, fl, key, packed) ==
    add_record_at([i |-> records_count(fl), h |-> hd], fl, key, packed)

\* one turn of the items loop of seed
seed_item(it, cat_id, qty) ==
    LET n == next_id(it.h, it.file)
        a == seed_add_record(n.h, n.file, n.nid, ItemsPack(1, n.nid, cat_id, qty))
    IN  IF ~n.ok \/ ~FitsU32(qty)
        THEN Result(n, "struct.error")
        ELSE Result(a, a.res)

\* one turn of the movements loop of seed, for item id iid, amount qty and
\* movement type typ
seed_movement(it, mv, iid, qty, typ) ==
    IF qty = Small(0) THEN Outcome(it, mv, "continue")
    ELSE
    LET rd == read_record(it.h, it.file, iid)
    IN  IF ~rd.found THEN Outcome(it, mv, "continue")
        ELSE
        LET r == ItemsUnpack(rd.raw)
            q == IF typ = Issue /\ ~Leq(qty, r.qty) THEN r.qty ELSE qty
            new_qty == IF typ = Issue THEN Minus(r.qty, q)
                       ELSE IF typ = Return THEN Plus(r.qty, q)
                       ELSE r.qty
            n == next_id(mv.h, mv.file)
            a == seed_add_record(n.h, n.file, n.nid,
                                 MovesPack(1, n.nid, iid, q, typ))
            u == update_record(it.h, it.file, iid,
                               ItemsPack(1, r.item_id, r.cat_id, new_qty))
        IN  IF ~n.ok \/ ~FitsU32(q)
            THEN Outcome(it, Table(n), "struct.error")
            ELSE IF a.res # "ok" THEN Outcome(it, Table(a), a.res)
            ELSE IF new_qty = r.qty THEN Outcome(it, Table(a), "ok")
            ELSE IF ~FitsU32(new_qty)
            THEN Outcome(it, Table(a), "struct.error")
            ELSE Outcome(Table(u), Table(a), u.res)

\* the items loop runs before the movements loop
SeedItem(cat_id, qty) ==
    /\ items.h.next_id <= MaxItems
    /\ moves.h.next_id = 1
    /\ LET r == seed_item(items, cat_id, qty)
       IN  /\ items' = Table(r)
           /\ last' = [op |-> "seed_item", res |-> r.res]
    /\ UNCHANGED <<h, file, shadow, minted, moves, codec, peer, crashes>>

SeedMovement(iid, qty, typ) ==
    /\ moves.h.next_id <= MaxMoves
    /\ LET r == seed_movement(items, moves, iid, qty, typ)
       IN  /\ items' = r.items
           /\ moves' = r.moves
           /\ last' = [op |-> "seed_movement", res |-> r.res]
    /\ UNCHANGED <<h, file, shadow, minted, codec, peer, crashes>>

NextSeed ==
    \/ \E q \in Quantities : SeedItem(1, q)
    \/ \E i \in ItemKeys, n \in Amounts, t \in MoveTypes : SeedMovement(i, n, t)

SpecSeed == Init /\ [][NextSeed]_vars

\* the movement records of a table, in file order
Stored(mv) == [p \in 1 .. Len(mv.file.recs) |-> mv.file.recs[p].data]

\* C30: in every state the seeding script reaches, for every item, amount
\* n > 0 and movement type, one turn of the seeding loop leaves the
\* movement records and the item records that App.add_movement would leave:
\* the same amount stored and the same resulting quantity, or nothing stored
\* and the quantity unchanged exactly when add_movement rejects.
C30_SeedPolicy ==
    \A i \in ItemKeys, n \in Amounts \ {Small(0)}, t \in MoveTypes :
        LET s == seed_movement(items, moves, i, n, t)
            a == add_movement(items, moves, i, n, t)
        IN  /\ Stored(s.moves) = Stored(a.moves)
            /\ s.items.file.recs = a.items.file.recs

====
